---- MODULE Spec2Model ----
(***************************************************************************)
(* Model of executor/src/witgen/machines/write_once_memory.rs:             *)
(* WriteOnceMemory, a memory machine with a fixed address space in which   *)
(* each address can have only one value during the lifetime of the program.*)
(***************************************************************************)
EXTENDS Integers, Sequences, FiniteSets, TLC

\* ------------------------------------------------------------------ bounds
\* Number of rows of the trace (fixed_data.degree).
Degree == 2
\* Modulus of the field T the machine is instantiated with.
FieldSize == 2

\* ------------------------------------------------------------- basic types
\* Option<X>: None is the empty set, Some(x) the singleton of x.
None == {}

Some(x) == {x}

\* Option::unwrap
Unwrap(o) == CHOOSE x \in o : TRUE

\* Option::or
Or(a, b) == IF a # None THEN a ELSE b

\* The field elements.
F == 0 .. (FieldSize - 1)

\* The rows 0..degree.
Rows == 0 .. (Degree - 1)

\* The unknown variables (AlgebraicReference) an affine expression ranges over.
Vars == {"x", "y"}

FSub(a, b) == (a + FieldSize - b) % FieldSize

\* T::zero()
Zero == 0

\* Option<T>::unwrap_or_default
unwrap_or_default(o) == IF o = None THEN Zero ELSE Unwrap(o)

\* -------------------------------------------------- affine expressions
\* AffineExpression<K, T>: coefficients of the unknowns plus an offset.
Const(c) == [coeffs |-> [v \in Vars |-> 0], offset |-> c]

Var(x) == [coeffs |-> [v \in Vars |-> IF v = x THEN 1 ELSE 0], offset |-> 0]

\* x + c
VarPlus(x, c) == [coeffs |-> [v \in Vars |-> IF v = x THEN 1 ELSE 0], offset |-> c]

\* x + y
VarSum == [coeffs |-> [v \in Vars |-> 1], offset |-> 0]

nonzero_coefficients(e) == {v \in Vars : e.coeffs[v] # 0}

\* AffineExpression::constant_value: Some(offset) iff no unknown is left.
constant_value(e) == IF nonzero_coefficients(e) = {} THEN Some(e.offset) ELSE None

\* l.clone() - (*r).into(): subtract a field element from an expression.
SubConst(e, r) == [e EXCEPT !.offset = FSub(e.offset, r)]

\* AffineExpression::solve of e = 0, as used through `.solve()?.constraints`:
\* ok = FALSE is Err(ConstraintUnsatisfiable); otherwise the constraints are
\* the assignments found (none when the expression has several unknowns).
solve(e) ==
    LET nz == nonzero_coefficients(e) IN
    IF nz = {}
    THEN [ok |-> e.offset = 0, constraints |-> << >>]
    ELSE IF Cardinality(nz) = 1
    THEN LET v == CHOOSE w \in nz : TRUE
             a == CHOOSE b \in F : (e.coeffs[v] * b + e.offset) % FieldSize = 0
         IN  [ok |-> TRUE, constraints |-> << <<v, a>> >>]
    ELSE [ok |-> TRUE, constraints |-> << >>]

\* ---------------------------------------------------------- polynomials
\* A simple polynomial reference of the right-hand side (try_to_simple_poly).
Poly(n, t) == [name |-> n, ptype |-> t, next |-> FALSE]

\* The right-hand sides the machine is built for: one key column and two
\* value columns, or two key columns around one value column.
RhsChoices ==
    { << Poly("ADDR", "Constant"), Poly("v", "Committed"), Poly("w", "Committed") >>,
      << Poly("A", "Constant"), Poly("v", "Committed"), Poly("B", "Constant") >> }

\* fixed_data.fixed_cols[k].values
FixedCols ==
    [ ADDR |-> [i \in 1 .. Degree |-> (i - 1) % FieldSize],
      A    |-> [i \in 1 .. Degree |-> ((i - 1) \div 2) % FieldSize],
      B    |-> [i \in 1 .. Degree |-> (i - 1) % 2] ]

\* An externally provided witness column of n rows.
ExtSeq(n) == [i \in 1 .. n |-> i % FieldSize]

\* fixed_data.witness_cols[p].external_values: absent, shorter than the
\* trace, as long as the trace, or longer.
ExternalChoices ==
    { [v |-> None, w |-> None],
      [v |-> Some(ExtSeq(1)), w |-> None],
      [v |-> Some(ExtSeq(Degree)), w |-> None],
      [v |-> None, w |-> Some(ExtSeq(Degree + 1))] }

\* Identity kinds of a request.
IdentityKinds == {"Plookup", "Permutation"}

VARIABLES
    fixed_data,    \* degree, fixed_cols and the witness columns' external values
    rhs,           \* the right-hand side of the connecting identity
    value_polys,   \* the witness polynomials of the right-hand side
    key_to_index,  \* map from keys to row indices
    data,          \* the memory content: row -> vector of Option<T>
    request,       \* the arguments of the call of process_plookup under way
    result,        \* what the last call of process_plookup returned
    columns        \* what take_witness_col_values returned, None before

vars == << fixed_data, rhs, value_polys, key_to_index, data, request, result, columns >>

\* ------------------------------------------------------------ construction
Indices(n) == [i \in 1 .. n |-> i]

IsKeyPos(r, i) == r[i].ptype = "Constant"

\* The positions of the key (fixed) and value (witness) columns, in order.
KeyPositions(r) == SelectSeq(Indices(Len(r)), LAMBDA i : IsKeyPos(r, i))

ValuePositions(r) == SelectSeq(Indices(Len(r)), LAMBDA i : ~IsKeyPos(r, i))

KeyPolys(r) == [j \in 1 .. Len(KeyPositions(r)) |-> r[KeyPositions(r)[j]].name]

ValuePolys(r) == [j \in 1 .. Len(ValuePositions(r)) |-> r[ValuePositions(r)[j]].name]

\* The key of a row: the key columns' fixed values on it.
RowKey(fd, kp, row) == [j \in 1 .. Len(kp) |-> fd.fixed_cols[kp[j]][row + 1]]

\* BTreeMap::insert
MapInsert(m, k, val) ==
    [x \in DOMAIN m \cup {k} |-> IF x = k THEN val ELSE m[x]]

EmptyMap == << >>

\* The loop building key_to_index: None on a duplicate key.
RECURSIVE BuildKeyToIndex(_, _, _, _)
BuildKeyToIndex(fd, kp, row, m) ==
    IF row >= fd.degree THEN Some(m)
    ELSE LET key == RowKey(fd, kp, row) IN
         IF key \in DOMAIN m THEN None
         ELSE BuildKeyToIndex(fd, kp, row + 1, MapInsert(m, key, row))

FixedData(ext) ==
    [degree |-> Degree, fixed_cols |-> FixedCols,
     witness_cols |-> [p \in DOMAIN ext |-> [external_values |-> ext[p]]]]

NoResult == [status |-> "none", cause |-> "none", error |-> "none", updates |-> << >>]

Init ==
    \E r \in RhsChoices, ext \in ExternalChoices :
        /\ fixed_data = FixedData(ext)
        /\ rhs = r
        /\ value_polys = ValuePolys(r)
        /\ BuildKeyToIndex(FixedData(ext), KeyPolys(r), 0, EmptyMap) # None
        /\ key_to_index = Unwrap(BuildKeyToIndex(FixedData(ext), KeyPolys(r), 0, EmptyMap))
        /\ data = EmptyMap
        /\ request = None
        /\ result = NoResult
        /\ columns = None

\* ----------------------------------------------------------- the requests
\* The left-hand expressions a request may carry at position i of the
\* right-hand side: a constant or an unknown for a key column; a constant,
\* an unknown, an unknown plus one or a sum of two unknowns for a value column.
LeftChoices(right, i) ==
    IF IsKeyPos(right, i)
    THEN {Const(c) : c \in F} \cup {Var("x")}
    ELSE {Const(c) : c \in F} \cup
         (IF i = 2 THEN {Var("x"), VarSum} ELSE {Var("y"), VarPlus("y", 1)})

Lefts(right) ==
    { << a, b, c >> : a \in LeftChoices(right, 1), b \in LeftChoices(right, 2),
                      c \in LeftChoices(right, 3) }

\* EvalResult: Ok(EvalValue::complete), Ok(EvalValue::incomplete...), Err.
Complete(updates) ==
    [status |-> "complete", cause |-> "none", error |-> "none", updates |-> updates]

Incomplete(updates, cause) ==
    [status |-> "incomplete", cause |-> cause, error |-> "none", updates |-> updates]

Error(e) ==
    [status |-> "error", cause |-> "none", error |-> e, updates |-> << >>]

\* process_plookup returned None: the request is not for this machine.
Declined ==
    [status |-> "declined", cause |-> "none", error |-> "none", updates |-> << >>]

\* ------------------------------------------------- process_plookup_internal
\* fixed_data.external_witness(row, poly)
external_witness(index, p) ==
    LET ev == fixed_data.witness_cols[p].external_values IN
    IF ev = None THEN None
    ELSE IF index + 1 <= Len(Unwrap(ev)) THEN Some(Unwrap(ev)[index + 1])
    ELSE None

\* Mutant of RequestKey: a key expression that is not constant counts as zero.
RequestKey_or_default(left, right) ==
    LET kpos == KeyPositions(right)
    IN  Some([j \in 1 .. Len(kpos) |-> unwrap_or_default(constant_value(left[kpos[j]]))])

\* The key of the request: Some(constants) iff every key expression is constant.
RequestKey(left, right) ==
    LET kpos == KeyPositions(right)
        ks   == [j \in 1 .. Len(kpos) |-> constant_value(left[kpos[j]])]
    IN  IF \E j \in 1 .. Len(kpos) : ks[j] = None THEN None
        ELSE Some([j \in 1 .. Len(kpos) |-> Unwrap(ks[j])])

ValueExpressions(left, right) ==
    LET vpos == ValuePositions(right)
    IN  [j \in 1 .. Len(vpos) |-> left[vpos[j]]]

\* If there is an externally provided memory value, use it.
external_witness_value(index) ==
    [j \in 1 .. Len(value_polys) |-> external_witness(index, value_polys[j])]

\* Mutant of stored_value: the memory content is not consulted.
stored_value_external_only(d, index) == external_witness_value(index)

\* Mutant of stored_value: the external witness is not consulted.
stored_value_data_only(d, index) ==
    IF index \in DOMAIN d THEN d[index]
    ELSE [j \in 1 .. Len(value_polys) |-> None]

stored_value(d, index) ==
    IF index \in DOMAIN d
    THEN [j \in 1 .. Len(value_polys) |-> Or(external_witness_value(index)[j], d[index][j])]
    ELSE external_witness_value(index)

\* Mutant of ReconcileColumn: a constant that meets no stored value is not
\* written.
ReconcileColumn_no_write(l, r) ==
    IF r = None
    THEN [ok |-> TRUE, value |-> None, constraints |-> << >>]
    ELSE [ok |-> solve(SubConst(l, Unwrap(r))).ok,
          value |-> IF solve(SubConst(l, Unwrap(r))).ok THEN r ELSE None,
          constraints |-> IF solve(SubConst(l, Unwrap(r))).ok
                          THEN solve(SubConst(l, Unwrap(r))).constraints ELSE << >>]

\* Mutant of ReconcileColumn: a constant of the request replaces the stored
\* value.
ReconcileColumn_overwrite(l, r) ==
    IF r = None \/ constant_value(l) # None
    THEN [ok |-> TRUE, value |-> constant_value(l), constraints |-> << >>]
    ELSE [ok |-> solve(SubConst(l, Unwrap(r))).ok, value |-> r,
          constraints |-> solve(SubConst(l, Unwrap(r))).constraints]

\* Mutant of ReconcileColumn: what is written back is the constant of the
\* request, not the stored value it was reconciled with.
ReconcileColumn_forget(l, r) ==
    IF r = None
    THEN [ok |-> TRUE, value |-> constant_value(l), constraints |-> << >>]
    ELSE [ok |-> solve(SubConst(l, Unwrap(r))).ok,
          value |-> constant_value(l),
          constraints |-> IF solve(SubConst(l, Unwrap(r))).ok
                          THEN solve(SubConst(l, Unwrap(r))).constraints ELSE << >>]

\* Mutant of ReconcileColumn: a constant that meets a stored value is an error
\* even when the two are equal.
ReconcileColumn_no_reassert(l, r) ==
    IF r = None
    THEN [ok |-> TRUE, value |-> constant_value(l), constraints |-> << >>]
    ELSE IF constant_value(l) # None
    THEN [ok |-> FALSE, value |-> None, constraints |-> << >>]
    ELSE [ok |-> solve(SubConst(l, Unwrap(r))).ok, value |-> r,
          constraints |-> solve(SubConst(l, Unwrap(r))).constraints]

\* Mutant of ReconcileColumn: a constant on the left is not compared with the
\* stored value.
ReconcileColumn_no_assert(l, r) ==
    IF r = None
    THEN [ok |-> TRUE, value |-> constant_value(l), constraints |-> << >>]
    ELSE IF constant_value(l) # None
    THEN [ok |-> TRUE, value |-> r, constraints |-> << >>]
    ELSE [ok |-> solve(SubConst(l, Unwrap(r))).ok, value |-> r,
          constraints |-> solve(SubConst(l, Unwrap(r))).constraints]

\* Mutant of ReconcileColumn: the solved constraints are not added to the updates.
ReconcileColumn_no_updates(l, r) ==
    IF r = None
    THEN [ok |-> TRUE, value |-> constant_value(l), constraints |-> << >>]
    ELSE [ok |-> solve(SubConst(l, Unwrap(r))).ok,
          value |-> IF solve(SubConst(l, Unwrap(r))).ok THEN r ELSE None,
          constraints |-> << >>]

\* One value column of the reconciliation: the match on (l.constant_value(), r).
ReconcileColumn(l, r) ==
    IF r = None
    THEN \* (None, None) -> None; (Some(l), None) -> write, no updates
         [ok |-> TRUE, value |-> constant_value(l), constraints |-> << >>]
    ELSE \* value stored -> keep it & either update the LHS or assert equality
         LET s == solve(SubConst(l, Unwrap(r))) IN
         IF s.ok THEN [ok |-> TRUE, value |-> r, constraints |-> s.constraints]
         ELSE [ok |-> FALSE, value |-> None, constraints |-> << >>]

\* The columns in order, stopping at the first error (collect::<Result<..>>()?).
RECURSIVE Reconcile(_, _, _, _, _)
Reconcile(ve, sv, j, values, updates) ==
    IF j > Len(ve) \/ j > Len(sv) THEN [ok |-> TRUE, values |-> values, updates |-> updates]
    ELSE LET c == ReconcileColumn(ve[j], sv[j]) IN
         IF ~c.ok THEN [ok |-> FALSE, values |-> << >>, updates |-> << >>]
         ELSE Reconcile(ve, sv, j + 1, Append(values, c.value), updates \o c.constraints)

\* Mutant of GetIndex: a key that is not found addresses row 0.
GetIndex_or_default(key) ==
    IF key \in DOMAIN key_to_index THEN Some(key_to_index[key]) ELSE Some(0)

\* self.key_to_index.get(&key).cloned()
GetIndex(key) ==
    IF key \in DOMAIN key_to_index THEN Some(key_to_index[key]) ELSE None

\* Mutant of IsComplete: one known value is enough.
IsComplete_any(values) == \E j \in 1 .. Len(values) : values[j] # None

\* !values.contains(&None)
IsComplete(values) == \A j \in 1 .. Len(values) : values[j] # None

\* Mutant of RequestResult: an incomplete result carries no updates.
RequestResult_drop_updates(is_complete, updates) ==
    IF is_complete THEN Complete(updates) ELSE Incomplete(<< >>, "value")

\* The final match on is_complete.
RequestResult(is_complete, updates) ==
    IF is_complete THEN Complete(updates) ELSE Incomplete(updates, "value")

\* Mutant of process_plookup_internal: the memory content is replaced by the
\* row of the request.
process_plookup_internal_clear_others(d, left, right) ==
    LET key == RequestKey(left, right) IN
    IF key = None THEN [data |-> d, result |-> Incomplete(<< >>, "key")]
    ELSE IF GetIndex(Unwrap(key)) = None
    THEN [data |-> d, result |-> Error("KeyNotFound")]
    ELSE LET index == Unwrap(GetIndex(Unwrap(key)))
             rec   == Reconcile(ValueExpressions(left, right), stored_value(d, index),
                                1, << >>, << >>)
         IN  IF ~rec.ok THEN [data |-> d, result |-> Error("ConstraintUnsatisfiable")]
             ELSE [data   |-> MapInsert(EmptyMap, index, rec.values),
                   result |-> RequestResult(IsComplete(rec.values), rec.updates)]

\* Mutant of process_plookup_internal: the constants of the request are
\* written to the unset slots of the row before the columns are reconciled.
process_plookup_internal_write_first(d, left, right) ==
    LET key == RequestKey(left, right) IN
    IF key = None THEN [data |-> d, result |-> Incomplete(<< >>, "key")]
    ELSE IF GetIndex(Unwrap(key)) = None
    THEN [data |-> d, result |-> Error("KeyNotFound")]
    ELSE LET index == Unwrap(GetIndex(Unwrap(key)))
             ve    == ValueExpressions(left, right)
             sv    == stored_value(d, index)
             rec   == Reconcile(ve, sv, 1, << >>, << >>)
         IN  IF ~rec.ok
             THEN [data   |-> MapInsert(d, index,
                                 [j \in 1 .. Len(ve) |-> Or(sv[j], constant_value(ve[j]))]),
                   result |-> Error("ConstraintUnsatisfiable")]
             ELSE [data   |-> MapInsert(d, index, rec.values),
                   result |-> RequestResult(IsComplete(rec.values), rec.updates)]

\* The new memory content and the result of one request.
process_plookup_internal(d, left, right) ==
    LET key == RequestKey(left, right) IN
    IF key = None THEN [data |-> d, result |-> Incomplete(<< >>, "key")]
    ELSE IF GetIndex(Unwrap(key)) = None
    THEN [data |-> d, result |-> Error("KeyNotFound")]
    ELSE LET index == Unwrap(GetIndex(Unwrap(key)))
             rec   == Reconcile(ValueExpressions(left, right), stored_value(d, index),
                                1, << >>, << >>)
         IN  IF ~rec.ok THEN [data |-> d, result |-> Error("ConstraintUnsatisfiable")]
             ELSE [data   |-> MapInsert(d, index, rec.values),
                   result |-> RequestResult(IsComplete(rec.values), rec.updates)]

\* Mutant of process_plookup: the kind of the identity is not looked at.
process_plookup_any_kind(d, kind, left, right) ==
    IF right = rhs
    THEN process_plookup_internal(d, left, right)
    ELSE [data |-> d, result |-> Declined]

\* Machine::process_plookup: handle the request or decline it.
process_plookup(d, kind, left, right) ==
    IF right = rhs /\ kind = "Plookup"
    THEN process_plookup_internal(d, left, right)
    ELSE [data |-> d, result |-> Declined]

\* ------------------------------------------------- take_witness_col_values
\* Vec::resize(n, zero): truncate or pad with zeros.
Resize(s, n) == [i \in 1 .. n |-> IF i <= Len(s) THEN s[i] ELSE Zero]

\* Mutant of WitnessColumn: the external values are not used.
WitnessColumn_data_only(d, value_index) ==
    [i \in 1 .. fixed_data.degree |->
        IF (i - 1) \in DOMAIN d THEN unwrap_or_default(d[i - 1][value_index])
        ELSE Zero]

\* Mutant of WitnessColumn: the rows of the memory content are shifted by one.
WitnessColumn_shifted(d, value_index) ==
    LET ev == fixed_data.witness_cols[value_polys[value_index]].external_values IN
    IF ev # None
    THEN [i \in 1 .. fixed_data.degree |->
            IF i <= Len(Unwrap(ev)) THEN Unwrap(ev)[i] ELSE Zero]
    ELSE [i \in 1 .. fixed_data.degree |->
            IF i \in DOMAIN d THEN unwrap_or_default(d[i][value_index])
            ELSE Zero]

\* The column of the value polynomial at value_index.
WitnessColumn(d, value_index) ==
    LET ev == fixed_data.witness_cols[value_polys[value_index]].external_values IN
    IF ev # None
    THEN Resize(Unwrap(ev), fixed_data.degree)
    ELSE [i \in 1 .. fixed_data.degree |->
            IF (i - 1) \in DOMAIN d THEN unwrap_or_default(d[i - 1][value_index])
            ELSE Zero]

\* The map from column name to column.
take_witness_col_values(d) ==
    [p \in {value_polys[j] : j \in 1 .. Len(value_polys)} |->
        WitnessColumn(d, CHOOSE j \in 1 .. Len(value_polys) :
                            /\ value_polys[j] = p
                            /\ \A k \in 1 .. Len(value_polys) : value_polys[k] = p => k <= j)]

\* ------------------------------------------------------------------ actions
\* One call of process_plookup by the fixed-point driver, before finalization:
\* the arguments of the call and what it returns are kept until the driver
\* has taken the result. A declined request never reads its left-hand side.
ProcessPlookup ==
    /\ columns = None
    /\ request = None
    /\ \E kind \in IdentityKinds, right \in RhsChoices :
         \E left \in (IF right = rhs /\ kind = "Plookup" THEN Lefts(right)
                      ELSE {[i \in 1 .. Len(right) |-> Const(Zero)]}) :
            \E out \in {process_plookup(data, kind, left, right)} :
                /\ request' = Some([kind |-> kind, left |-> left, right |-> right])
                /\ data' = out.data
                /\ result' = out.result
    /\ UNCHANGED << fixed_data, rhs, value_polys, key_to_index, columns >>

\* The driver has taken the result of the call.
Return ==
    /\ request # None
    /\ request' = None
    /\ result' = NoResult
    /\ UNCHANGED << fixed_data, rhs, value_polys, key_to_index, data, columns >>

\* The one call of take_witness_col_values, once evaluation has converged.
TakeWitnessColValues ==
    /\ columns = None
    /\ request = None
    /\ columns' = Some(take_witness_col_values(data))
    /\ UNCHANGED << fixed_data, rhs, value_polys, key_to_index, data, request, result >>

Next == ProcessPlookup \/ Return \/ TakeWitnessColValues

Spec == Init /\ [][Next]_vars

\* ------------------------------------------------------ the claims' terms
\* The state right after a call of process_plookup that was not declined.
Handled == request # None /\ result.status # "declined"

\* The key-side expressions of the request of that call, in order.
ReqKeyExprs ==
    LET kpos == KeyPositions(Unwrap(request).right)
    IN  [j \in 1 .. Len(kpos) |-> Unwrap(request).left[kpos[j]]]

\* The key of the request: Some(constants) if every key-side expression is a
\* constant, None otherwise.
ReqKey ==
    LET ks == ReqKeyExprs IN
    IF \A j \in 1 .. Len(ks) : nonzero_coefficients(ks[j]) = {}
    THEN Some([j \in 1 .. Len(ks) |-> ks[j].offset])
    ELSE None

\* The row the request of that call addresses: Some(row), or None when there
\* is no such call or when the key is not constant or not in the address table.
ReqRow ==
    IF Handled
    THEN {key_to_index[key] : key \in {k \in ReqKey : k \in DOMAIN key_to_index}}
    ELSE None

\* The request's value-side expression for value column j.
ReqValue(j) == ValueExpressions(Unwrap(request).left, Unwrap(request).right)[j]

\* The value columns.
ValueCols == 1 .. Len(value_polys)

\* The Memory Store slot of (row, value column).
Slot(d, r, j) == IF r \in DOMAIN d THEN d[r][j] ELSE None

\* The external override of (row, value column), Some(e) or None.
Override(r, j) ==
    LET ev == fixed_data.witness_cols[value_polys[j]].external_values IN
    IF ev # None /\ r + 1 <= Len(Unwrap(ev)) THEN Some(Unwrap(ev)[r + 1]) ELSE None

\* e is the single unknown x.
IsUnknown(e, x) == e.offset = 0 /\ \A v \in Vars : e.coeffs[v] = (IF v = x THEN 1 ELSE 0)

\* e has the single unknown x, with coefficient one.
HasOneUnknown(e, x) == nonzero_coefficients(e) = {x} /\ e.coeffs[x] = 1

\* The source of truth of (row, value column): the override if there is one,
\* else the Memory Store slot.
Source(d, r, j) == IF Override(r, j) # None THEN Override(r, j) ELSE Slot(d, r, j)

\* The update list holds the binding of x to a.
Binds(updates, x, a) == \E k \in 1 .. Len(updates) : updates[k] = << x, a >>

\* ------------------------------------------------------------------ claims
\* C1: write-once. In every step, a Memory Store slot that holds a value holds
\* the same value afterwards: no request changes it or unsets it.
C1_WriteOnce ==
    [][\A r \in Rows, j \in ValueCols :
          Slot(data, r, j) # None => Slot(data', r, j) = Slot(data, r, j)]_vars

\* C1 witness: a request with an unknown for a value column met a slot that a
\* former request had set (there is no override), and the slot kept its value.
C1_Witness ==
    /\ Handled /\ ReqRow # None /\ result.status = "complete"
    /\ \E j \in ValueCols :
          /\ Override(Unwrap(ReqRow), j) = None
          /\ constant_value(ReqValue(j)) = None
          /\ Slot(data, Unwrap(ReqRow), j) # None

\* C2: with no override, a request with the key of a row whose value-side
\* expression for a settled column is a different constant returns a fatal error.
C2_ContradictionIsFatal ==
    [][\A r \in ReqRow', j \in ValueCols :
          ( /\ Override(r, j) = None
            /\ Slot(data, r, j) # None
            /\ constant_value(ReqValue(j)') # None
            /\ constant_value(ReqValue(j)') # Slot(data, r, j) )
          => result'.status = "error"]_vars

\* C2 witness: a request brought a constant different from the settled value
\* and ended in the error of the unsatisfiable constraint.
C2_Witness ==
    /\ Handled /\ ReqRow # None /\ result.error = "ConstraintUnsatisfiable"
    /\ \E j \in ValueCols :
          /\ Override(Unwrap(ReqRow), j) = None
          /\ Slot(data, Unwrap(ReqRow), j) # None
          /\ constant_value(ReqValue(j)) # None
          /\ constant_value(ReqValue(j)) # Slot(data, Unwrap(ReqRow), j)

\* C3: a request whose key is constant but not in the Address Table returns a
\* fatal error, whatever its value side and whatever the Memory Store holds.
C3_AbsentKeyIsFatal ==
    (Handled /\ ReqKey # None /\ Unwrap(ReqKey) \notin DOMAIN key_to_index)
        => result.status = "error"

\* C3 witness: a request with an absent key and a constant value met a
\* Memory Store that is not empty, and ended in the error.
C3_Witness ==
    /\ Handled /\ ReqKey # None /\ Unwrap(ReqKey) \notin DOMAIN key_to_index
    /\ result.error = "KeyNotFound"
    /\ data # EmptyMap
    /\ \E j \in ValueCols : constant_value(ReqValue(j)) # None

\* C4: a request with a key-side expression that is not constant returns
\* incomplete with cause "key" and no updates, and leaves the Memory Store as
\* it was.
C4_NonConstantKey ==
    [][(Handled' /\ ReqKey' = None)
          => /\ result' = Incomplete(<< >>, "key")
             /\ data' = data]_vars

\* C4 witness: of two key expressions one is an unknown and the other a
\* constant, the value is a constant and the Memory Store is not empty.
C4_Witness ==
    /\ Handled /\ ReqKey = None
    /\ result.status = "incomplete" /\ result.cause = "key"
    /\ data # EmptyMap
    /\ Len(ReqKeyExprs) = 2
    /\ constant_value(ReqKeyExprs[1]) = None
    /\ constant_value(ReqKeyExprs[2]) # None
    /\ \E j \in ValueCols : constant_value(ReqValue(j)) # None

\* C5: a request that reaches reconciliation without a fatal error is complete
\* iff every value-column slot of the addressed row is set after the
\* write-back; otherwise it is incomplete with cause "value".
C5_CompleteIffAllSet ==
    (Handled /\ ReqRow # None /\ result.status # "error")
        => /\ result.status = "complete"
                <=> \A j \in ValueCols : Slot(data, Unwrap(ReqRow), j) # None
           /\ result.status # "complete"
                => (result.status = "incomplete" /\ result.cause = "value")

\* C5 witness: a request ended incomplete with one slot of its row set and
\* another unset.
C5_Witness ==
    /\ Handled /\ ReqRow # None
    /\ result.status = "incomplete" /\ result.cause = "value"
    /\ \E j, k \in ValueCols :
          /\ Slot(data, Unwrap(ReqRow), j) # None
          /\ Slot(data, Unwrap(ReqRow), k) = None

C7_PartialProgress ==
    [][(result'.status = "incomplete" /\ result'.cause = "value")
       => \A r \in ReqRow', j \in ValueCols :
             /\ \A x \in Vars :
                   (Source(data, r, j) # None /\ HasOneUnknown(ReqValue(j)', x))
                   => Binds(result'.updates, x,
                            FSub(Unwrap(Source(data, r, j)), ReqValue(j)'.offset))
             /\ (Source(data, r, j) = None /\ constant_value(ReqValue(j)') # None)
                   => Slot(data', r, j) = constant_value(ReqValue(j)')]_vars

\* C7 witness: a request ended incomplete with cause "value" for one column
\* and returned the binding solved for another column, whose value was known.
C7_Witness ==
    /\ Handled /\ ReqRow # None
    /\ result.status = "incomplete" /\ result.cause = "value"
    /\ \E j \in ValueCols, x \in Vars :
          /\ HasOneUnknown(ReqValue(j), x)
          /\ Slot(data, Unwrap(ReqRow), j) # None
          /\ Binds(result.updates, x,
                   FSub(Unwrap(Slot(data, Unwrap(ReqRow), j)), ReqValue(j).offset))

FinalColumn(j) == Unwrap(columns)[value_polys[j]]

\* The external override sequence of value column j, Some(sequence) or None.
OverrideSeq(j) == fixed_data.witness_cols[value_polys[j]].external_values

\* C9: the finalized column of a value column with an override sequence has
\* length degree, equals the sequence on the rows it covers and is zero on the
\* rows beyond its end, whatever the Memory Store holds.
C9_OverrideWinsFinalization ==
    columns # None =>
        \A j \in ValueCols :
            OverrideSeq(j) # None
            => /\ Len(FinalColumn(j)) = Degree
               /\ \A i \in 1 .. Degree :
                     FinalColumn(j)[i] =
                        (IF i <= Len(Unwrap(OverrideSeq(j)))
                         THEN Unwrap(OverrideSeq(j))[i] ELSE 0)

\* C9 witness: the override sequence is shorter than the trace and the Memory
\* Store holds a value that is not zero on a row beyond its end.
C9_Witness ==
    /\ columns # None
    /\ \E j \in ValueCols, r \in Rows :
          /\ OverrideSeq(j) # None
          /\ r >= Len(Unwrap(OverrideSeq(j)))
          /\ Slot(data, r, j) \notin {None, Some(0)}
          /\ FinalColumn(j)[r + 1] = 0

\* C10: the finalized column of a value column with no override sequence has
\* length degree, and its entry at row r is the Memory Store slot of r if it
\* is set and zero otherwise.
C10_FinalizationFromStore ==
    columns # None =>
        \A j \in ValueCols :
            OverrideSeq(j) = None
            => /\ Len(FinalColumn(j)) = Degree
               /\ \A r \in Rows :
                     FinalColumn(j)[r + 1] =
                        (IF Slot(data, r, j) # None THEN Unwrap(Slot(data, r, j)) ELSE 0)

\* C10 witness: one row was written with a value that is not zero, another
\* row was never addressed, and the column holds the value and zero.
C10_Witness ==
    /\ columns # None
    /\ \E j \in ValueCols, r, q \in Rows :
          /\ OverrideSeq(j) = None
          /\ Slot(data, r, j) \notin {None, Some(0)}
          /\ FinalColumn(j)[r + 1] = Unwrap(Slot(data, r, j))
          /\ q \notin DOMAIN data
          /\ FinalColumn(j)[q + 1] = 0

\* ---------------------------------------------------------------- try_new
\* An algebraic reference to the next row of a column (p.next).
NextPoly(n, t) == [name |-> n, ptype |-> t, next |-> TRUE]

\* Expression::Reference(p)
Reference(p) == [kind |-> "Reference", poly |-> p]

\* A compound expression over p, such as p + 1.
BinaryOperation(p) == [kind |-> "BinaryOperation", poly |-> p]

\* try_to_simple_poly: Some(p) for a single polynomial reference, else None.
try_to_simple_poly(e) == IF e.kind = "Reference" THEN Some(e.poly) ELSE None

\* The expression lists of the right-hand sides try_new is called with: the
\* two of RhsChoices, one with a compound expression, one whose key column
\* is read on the next row, one whose value column is read on the next row,
\* and one with both a next-row key column and a compound expression.
ExpressionChoices ==
    { << Reference(Poly("ADDR", "Constant")), Reference(Poly("v", "Committed")),
         Reference(Poly("w", "Committed")) >>,
      << Reference(Poly("A", "Constant")), Reference(Poly("v", "Committed")),
         Reference(Poly("B", "Constant")) >>,
      << Reference(Poly("ADDR", "Constant")), BinaryOperation(Poly("v", "Committed")),
         Reference(Poly("w", "Committed")) >>,
      << Reference(NextPoly("ADDR", "Constant")), Reference(Poly("v", "Committed")),
         Reference(Poly("w", "Committed")) >>,
      << Reference(Poly("ADDR", "Constant")), Reference(NextPoly("v", "Committed")),
         Reference(Poly("w", "Committed")) >>,
      << Reference(NextPoly("ADDR", "Constant")), BinaryOperation(Poly("v", "Committed")),
         Reference(Poly("w", "Committed")) >> }

\* SelectedExpressions: an optional selector and the expressions.
SelectorChoices == {None, Some(Reference(Poly("SEL", "Constant")))}

RightChoices ==
    { [selector |-> s, expressions |-> e] : s \in SelectorChoices, e \in ExpressionChoices }

\* An identity, of which try_new reads the right-hand side only.
Identity(kind, right) == [kind |-> kind, right |-> right]

\* connecting_identities: one or two lookups into the machine.
ConnectingChoices ==
    { << Identity("Plookup", a) >> : a \in RightChoices } \cup
    { << Identity("Plookup", a), Identity("Plookup", b) >> : a \in RightChoices, b \in RightChoices }

\* identities: none, or one polynomial identity attributed to the machine.
IdentitiesChoices ==
    { << >>,
      << Identity("Polynomial", [selector |-> None, expressions |-> << >>]) >> }

\* Fixed columns on which every row has the same key.
DuplicateCols == [k \in DOMAIN FixedCols |-> [i \in 1 .. Degree |-> Zero]]

\* fixed_data as passed to try_new: the keys of the rows distinct or not.
FixedDataChoices ==
    { FixedData([v |-> None, w |-> None]),
      [FixedData([v |-> None, w |-> None]) EXCEPT !.fixed_cols = DuplicateCols] }

\* What try_new does: return None, return Some(machine), or panic.
NotApplicable == [status |-> "not_applicable", machine |-> None]

Constructed(m) == [status |-> "machine", machine |-> Some(m)]

Panic == [status |-> "panic", machine |-> None]

\* The part of try_new after `rhs_polys?`: the partition, the asserts on
\* p.next (a failed assert! panics), the loop building key_to_index and the
\* construction of Self.
try_new_polys(fd, polys) ==
    IF \E i \in 1 .. Len(polys) : polys[i].next
    THEN Panic
    ELSE LET k2i == BuildKeyToIndex(fd, KeyPolys(polys), 0, EmptyMap) IN
         IF k2i = None THEN NotApplicable
         ELSE Constructed([fixed_data   |-> fd,
                           rhs          |-> polys,
                           value_polys  |-> ValuePolys(polys),
                           key_to_index |-> Unwrap(k2i),
                           data         |-> EmptyMap])

\* WriteOnceMemory::try_new; the machine's rhs is kept as the simple
\* polynomials of the right-hand side, which has no selector.
try_new(fd, connecting_identities, identities) ==
    IF identities # << >> THEN NotApplicable
    ELSE LET right == connecting_identities[1].right IN
         IF \E i \in 1 .. Len(connecting_identities) : connecting_identities[i].right # right
         THEN NotApplicable
         ELSE IF right.selector # None THEN NotApplicable
         ELSE LET rhs_polys == [i \in 1 .. Len(right.expressions) |->
                                   try_to_simple_poly(right.expressions[i])]
              IN  IF \E i \in 1 .. Len(rhs_polys) : rhs_polys[i] = None
                  THEN NotApplicable
                  ELSE try_new_polys(fd, [i \in 1 .. Len(rhs_polys) |-> Unwrap(rhs_polys[i])])

\* Before the call of try_new: its arguments are chosen, there is no machine.
InitNew ==
    \E fd \in FixedDataChoices, ci \in ConnectingChoices, ids \in IdentitiesChoices :
        /\ fixed_data = fd
        /\ request = Some([connecting_identities |-> ci, identities |-> ids])
        /\ result = NoResult
        /\ rhs = << >>
        /\ value_polys = << >>
        /\ key_to_index = EmptyMap
        /\ data = EmptyMap
        /\ columns = None

\* The call of try_new: result.status tells what it did, and the fields of
\* the machine are those of Self if one was returned.
TryNew ==
    /\ request # None
    /\ result = NoResult
    /\ \E out \in {try_new(fixed_data, Unwrap(request).connecting_identities,
                           Unwrap(request).identities)} :
          /\ result' = [NoResult EXCEPT !.status = out.status]
          /\ IF out.machine # None
             THEN /\ rhs' = Unwrap(out.machine).rhs
                  /\ value_polys' = Unwrap(out.machine).value_polys
                  /\ key_to_index' = Unwrap(out.machine).key_to_index
                  /\ data' = Unwrap(out.machine).data
             ELSE UNCHANGED << rhs, value_polys, key_to_index, data >>
    /\ UNCHANGED << fixed_data, request, columns >>

NextNew == TryNew

\* The construction alone: every choice of arguments, then the call.
SpecNew == InitNew /\ [][NextNew]_vars

\* ----------------------------------------- the claims' terms, construction
\* try_new has been called.
NewCalled == result.status \in {"not_applicable", "machine", "panic"}

\* The right-hand side construction looks at: that of the first connecting
\* identity.
NewRight == Unwrap(request).connecting_identities[1].right

\* Some non-connecting identity is attributed to the machine.
ExtraIdentity == Len(Unwrap(request).identities) > 0

\* Two connecting identities have different right-hand sides.
MismatchedRight ==
    \E i, j \in 1 .. Len(Unwrap(request).connecting_identities) :
        Unwrap(request).connecting_identities[i].right #
        Unwrap(request).connecting_identities[j].right

\* The right-hand side has a selector.
HasSelector == NewRight.selector # None

\* Some right-hand expression is not a single polynomial reference.
HasCompound ==
    \E i \in 1 .. Len(NewRight.expressions) : NewRight.expressions[i].kind # "Reference"

\* The positions of the right-hand side that are key (fixed) columns.
NewKeyPos ==
    {i \in 1 .. Len(NewRight.expressions) : NewRight.expressions[i].poly.ptype = "Constant"}

\* Rows r1 and r2 have the same key tuple.
SameKey(r1, r2) ==
    \A i \in NewKeyPos :
        fixed_data.fixed_cols[NewRight.expressions[i].poly.name][r1 + 1] =
        fixed_data.fixed_cols[NewRight.expressions[i].poly.name][r2 + 1]

\* Two rows in 0..degree have the same key tuple.
DuplicateKeys == \E r1, r2 \in Rows : r1 # r2 /\ SameKey(r1, r2)

\* The key tuple of a row, as the Address Table holds it.
NewRowKey(r) ==
    LET kpos == SelectSeq(Indices(Len(NewRight.expressions)), LAMBDA i : i \in NewKeyPos)
    IN  [j \in 1 .. Len(kpos) |->
            fixed_data.fixed_cols[NewRight.expressions[kpos[j]].poly.name][r + 1]]

\* Some key column of the right-hand side references the next row.
KeyOnNextRow == \E i \in NewKeyPos : NewRight.expressions[i].poly.next

\* Some value column of the right-hand side references the next row.
ValueOnNextRow ==
    \E i \in (1 .. Len(NewRight.expressions)) \ NewKeyPos : NewRight.expressions[i].poly.next

\* C11: construction returns "not applicable" whenever a non-connecting
\* identity is attributed to the machine, two connecting identities have
\* different right-hand sides, the right-hand side has a selector, some
\* right-hand expression is not a single polynomial reference, or two rows
\* have the same key tuple; and whenever it succeeds the Address Table maps
\* the key tuple of each of the degree rows to that row, injectively, and the
\* Memory Store is empty.
C11_Construction ==
    NewCalled =>
        /\ (ExtraIdentity \/ MismatchedRight \/ HasSelector \/ HasCompound \/ DuplicateKeys)
              => result.status = "not_applicable"
        /\ result.status = "machine" =>
              /\ \A r \in Rows : /\ NewRowKey(r) \in DOMAIN key_to_index
                                 /\ key_to_index[NewRowKey(r)] = r
              /\ \A k1, k2 \in DOMAIN key_to_index :
                    key_to_index[k1] = key_to_index[k2] => k1 = k2
              /\ DOMAIN key_to_index = {NewRowKey(r) : r \in Rows}
              /\ data = EmptyMap

\* C12: construction never fails as an error: whatever the arguments, also
\* with a key column that references the next row, it returns a machine or
\* "not applicable", and with such a key column it returns "not applicable".
C12_NeverAnError ==
    NewCalled =>
        /\ result.status \in {"machine", "not_applicable"}
        /\ KeyOnNextRow => result.status = "not_applicable"

\* C13: a request is processed if and only if its identity kind is lookup and
\* its right-hand side equals the one recorded at construction; every other
\* request is declined, with no result at all (neither complete, incomplete
\* nor error), and leaves the Memory Store unchanged.
C13_ProcessedIffMatching ==
    [][\A q \in request' :
          /\ (q.kind = "Plookup" /\ q.right = rhs)
                <=> result'.status \in {"complete", "incomplete", "error"}
          /\ ~(q.kind = "Plookup" /\ q.right = rhs)
                => /\ result' = Declined
                   /\ data' = data]_vars

\* A request of another kind for the recorded right-hand side, and a lookup
\* for another right-hand side, each declined by a machine whose Memory Store
\* is not empty.
C13_Witness ==
    /\ request # None
    /\ result = Declined
    /\ data # EmptyMap
    /\ \/ Unwrap(request).kind = "Permutation" /\ Unwrap(request).right = rhs
       \/ Unwrap(request).kind = "Plookup" /\ Unwrap(request).right # rhs

\* Every value-side expression of the request of the call is a constant.
AllConstant(q) ==
    \A i \in 1 .. Len(q.left) :
        IsKeyPos(q.right, i) \/ nonzero_coefficients(q.left[i]) = {}

\* C14: a request with a valid constant key whose value-side expressions are
\* all constants returns no update, whether it writes to unset slots or meets
\* known values; on a fresh machine, on a row with no override, it stores each
\* constant in its slot and is complete.
C14_FirstWriteEmitsNothing ==
    [][\A q \in request' :
          AllConstant(q)
          => \A r \in ReqRow' :
                /\ result'.updates = << >>
                /\ (data = EmptyMap /\ \A j \in ValueCols : Override(r, j) = None)
                      => /\ result'.status = "complete"
                         /\ \A j \in ValueCols :
                               Slot(data', r, j) = Some(ReqValue(j)'.offset)]_vars

\* C14 witness: a request of constants with a valid key is complete with no
\* updates, its row has no override, and the Memory Store holds just that row
\* with the constants of the request.
C14_Witness ==
    /\ Handled /\ ReqRow # None /\ AllConstant(Unwrap(request))
    /\ result = Complete(<< >>)
    /\ DOMAIN data = ReqRow
    /\ \A j \in ValueCols :
          /\ Override(Unwrap(ReqRow), j) = None
          /\ Slot(data, Unwrap(ReqRow), j) = Some(ReqValue(j).offset)

\* The request q re-asserts row r of the Memory Store d: it has a constant for
\* some value column, each of its constants equals what the slot of its column
\* holds, and every other value-side expression is for a column of which
\* nothing is known.
Reasserts(q, d, r) ==
    LET ve == ValueExpressions(q.left, q.right) IN
    /\ \E j \in ValueCols : nonzero_coefficients(ve[j]) = {}
    /\ \A j \in ValueCols :
          IF nonzero_coefficients(ve[j]) = {}
          THEN Slot(d, r, j) = Some(ve[j].offset)
          ELSE Source(d, r, j) = None

\* C15: re-asserting is idempotent. A request whose constants equal the values
\* stored for its row succeeds, is complete when all columns of the row are
\* known, returns no updates and leaves the Memory Store as it was.
C15_ReassertIdempotent ==
    [][\A r \in ReqRow', q \in request' :
          Reasserts(q, data, r)
          => /\ result'.status \in {"complete", "incomplete"}
             /\ (\A j \in ValueCols : Slot(data, r, j) # None)
                   <=> result'.status = "complete"
             /\ result'.updates = << >>
             /\ data' = data]_vars

\* C15 witness: two rows are stored, and a request whose value-side
\* expressions are the constants held by the slots of its row is complete
\* with no updates.
C15_Witness ==
    /\ Handled /\ ReqRow # None
    /\ Cardinality(DOMAIN data) = 2
    /\ Reasserts(Unwrap(request), data, Unwrap(ReqRow))
    /\ AllConstant(Unwrap(request))
    /\ result = Complete(<< >>)

\* C16: a request that ends in a fatal error, for a key that is not in the
\* Address Table or for a contradiction in any value column, leaves the Memory
\* Store unchanged, also when other value columns of the request would have
\* been first writes of constants to unset slots.
C16_ErrorLeavesStore ==
    [][result'.status = "error" => data' = data]_vars

\* C16 witness: a request ended in the error of the unsatisfiable constraint
\* for one column, while for an earlier column it carries a constant and the
\* slot of that column, which has no override, is unset.
C16_Witness ==
    /\ Handled /\ ReqRow # None /\ result.error = "ConstraintUnsatisfiable"
    /\ \E j, k \in ValueCols :
          /\ k < j
          /\ constant_value(ReqValue(k)) # None
          /\ Source(data, Unwrap(ReqRow), k) = None
          /\ Slot(data, Unwrap(ReqRow), j) # None
          /\ constant_value(ReqValue(j)) # None
          /\ constant_value(ReqValue(j)) # Slot(data, Unwrap(ReqRow), j)

\* C17: a processed request changes at most the Memory Store row addressed by
\* its key: every other row's vector, the Address Table, the partition into
\* key and value columns and the external overrides are after the request
\* what they were before it.
C17_OnlyAddressedRow ==
    [][Handled'
       => /\ \A r \in Rows \ ReqRow' :
                /\ r \in DOMAIN data' <=> r \in DOMAIN data
                /\ r \in DOMAIN data => data'[r] = data[r]
          /\ key_to_index' = key_to_index
          /\ rhs' = rhs
          /\ value_polys' = value_polys
          /\ fixed_data' = fixed_data]_vars

\* C17 witness: a request has written a constant to its row, which has no
\* override for that column, while another row of the Memory Store holds a
\* value.
C17_Witness ==
    /\ Handled /\ ReqRow # None /\ result.status # "error"
    /\ \E j \in ValueCols :
          /\ Override(Unwrap(ReqRow), j) = None
          /\ constant_value(ReqValue(j)) # None
          /\ Slot(data, Unwrap(ReqRow), j) = constant_value(ReqValue(j))
    /\ \E r \in Rows \ ReqRow, j \in ValueCols : Slot(data, r, j) # None

\* C18: completeness is stable. Once a request with the key of row r has
\* returned complete, every later request with that key returns complete or a
\* fatal error, never incomplete.
C18_CompletenessStable ==
    \A r \in Rows :
        []((result.status = "complete" /\ r \in ReqRow)
              => [](result.status = "incomplete" => r \notin ReqRow))

\* C18 witness: with one value column and no override on the row, a request
\* with an unknown for the column is complete and is bound to the value of
\* the slot; the request that wrote the slot had returned complete.
C18_Witness ==
    /\ Handled /\ ReqRow # None /\ result.status = "complete"
    /\ Len(value_polys) = 1
    /\ Override(Unwrap(ReqRow), 1) = None
    /\ \E x \in Vars :
          /\ IsUnknown(ReqValue(1), x)
          /\ Binds(result.updates, x, Unwrap(Slot(data, Unwrap(ReqRow), 1)))

\* The requests the driver may make, as ProcessPlookup draws them.
RequestsOf(kind, right) ==
    { [kind |-> kind, left |-> left, right |-> right] :
        left \in (IF right = rhs /\ kind = "Plookup" THEN Lefts(right)
                  ELSE {[i \in 1 .. Len(right) |-> Const(Zero)]}) }

Requests == UNION { RequestsOf(kind, right) : kind \in IdentityKinds, right \in RhsChoices }

\* C19: order independence. For any reachable Memory Store and any two
\* requests, if processing them in one order raises no fatal error then
\* processing them in the other order raises none either, and both orders end
\* in the same Memory Store. The step is the first request q1 of one order,
\* q2 is any second request; every ordered pair of requests is met this way.
C19_OrderIndependence ==
    [][\A q1 \in request' :
          result'.status # "error"
          => \A q2 \in Requests :
                \E q1q2 \in {process_plookup(data', q2.kind, q2.left, q2.right)} :
                   q1q2.result.status # "error"
                   => \E q2only \in {process_plookup(data, q2.kind, q2.left, q2.right)} :
                         /\ q2only.result.status # "error"
                         /\ \E q2q1 \in {process_plookup(q2only.data, q1.kind, q1.left, q1.right)} :
                               /\ q2q1.result.status # "error"
                               /\ q2q1.data = q1q2.data]_vars

\* C19 witness: the second of two requests at the same row, neither of which
\* raised an error: it carries a constant for one column, which the slot
\* holds, and an unknown for another column, bound to what an earlier request
\* wrote to that slot.
C19_Witness ==
    /\ Handled /\ ReqRow # None /\ result.status = "complete"
    /\ \E j, k \in ValueCols, x \in Vars :
          /\ j # k
          /\ Override(Unwrap(ReqRow), j) = None
          /\ Override(Unwrap(ReqRow), k) = None
          /\ IsUnknown(ReqValue(j), x)
          /\ Binds(result.updates, x, Unwrap(Slot(data, Unwrap(ReqRow), j)))
          /\ constant_value(ReqValue(k)) = Slot(data, Unwrap(ReqRow), k)

\* C20: the witness agrees with what requests were told. At finalization, for
\* every row r and value column c whose Memory Store slot is set to v, the
\* finalized column of c has v at row r, also when c has an override sequence
\* that is shorter than the trace and does not cover r.
C20_WitnessAgreesWithStore ==
    columns # None =>
        \A r \in Rows, j \in ValueCols :
            Slot(data, r, j) # None
            => FinalColumn(j)[r + 1] = Unwrap(Slot(data, r, j))
====
